---- MODULE Spec2Model ----
(***************************************************************************)
(* Model of extrair_itens_docx.py: extraction of (code, quantity) pairs    *)
(* from the "Itens" tables of a Word document, consolidation of the pairs  *)
(* by code, and the run_gui driver around them.                            *)
(*                                                                         *)
(* Text is a sequence of one-character strings; the non-breaking space     *)
(* U+00A0 is the token "nbsp".  A document is a sequence of tables, a      *)
(* table a sequence of rows, a row a sequence of cell texts.               *)
(***************************************************************************)
EXTENDS Integers, Sequences, FiniteSets, TLC

VARIABLES
    pc,            \* position in run_gui / extract_code_qty / consolidate_rows
    docx_path,     \* run_gui: the chosen .docx path ("" when cancelled)
    out_xlsx,      \* run_gui: the chosen .xlsx path ("" when cancelled)
    doc,           \* extract_code_qty: doc.tables
    t_i, r_i,      \* extract_code_qty: 1-based table and row index
    results,       \* extract_code_qty: accepted (code, qty) pairs
    origin,        \* history: the <<t_i, r_i>> each element of results came from
    logs,          \* extract_code_qty: skip records (t_i, r_i, reason, value)
    itens_tables,  \* extract_code_qty: number of target tables seen
    rows, meta,    \* run_gui: what extract_code_qty returned (<<>> before)
    xlsx_file,     \* the spreadsheet on disk (<<>> while not written)
    log_file,      \* the log on disk (<<>> while not written)
    events,        \* history: dialogs, reads, writes, raises and message boxes
    cons_in,       \* consolidate_rows: its argument
    c_i,           \* consolidate_rows: rows consumed by the summing loop
    sums,          \* consolidate_rows: the defaultdict, in insertion order
    consolidated   \* consolidate_rows: its result

vars == <<pc, docx_path, out_xlsx, doc, t_i, r_i, results, origin, logs,
          itens_tables, rows, meta, xlsx_file, log_file, events,
          cons_in, c_i, sums, consolidated>>

----------------------------------------------------------------------------
(* Characters *)

Digits == {"0", "1", "2", "3", "4", "5", "6", "7", "8", "9"}

DigitVal(c) ==
    CASE c = "0" -> 0 [] c = "1" -> 1 [] c = "2" -> 2 [] c = "3" -> 3
      [] c = "4" -> 4 [] c = "5" -> 5 [] c = "6" -> 6 [] c = "7" -> 7
      [] c = "8" -> 8 [] c = "9" -> 9

DigitChar(n) ==
    CASE n = 0 -> "0" [] n = 1 -> "1" [] n = 2 -> "2" [] n = 3 -> "3"
      [] n = 4 -> "4" [] n = 5 -> "5" [] n = 6 -> "6" [] n = 7 -> "7"
      [] n = 8 -> "8" [] n = 9 -> "9"

\* Unicode whitespace of the model's alphabet (str.strip, regex \s).
IsSpace(c) == c \in {" ", "nbsp"}

IsDigit(c) == c \in Digits

\* str.upper / str.lower, one character at a time.
UpperChar(c) ==
    CASE c = "i" -> "I" [] c = "t" -> "T" [] c = "e" -> "E" [] c = "n" -> "N"
      [] c = "s" -> "S" [] c = "d" -> "D" [] c = "q" -> "Q" [] c = "u" -> "U"
      [] c = "x" -> "X" [] OTHER -> c

LowerChar(c) ==
    CASE c = "I" -> "i" [] c = "T" -> "t" [] c = "E" -> "e" [] c = "N" -> "n"
      [] c = "S" -> "s" [] c = "D" -> "d" [] c = "Q" -> "q" [] c = "U" -> "u"
      [] c = "X" -> "x" [] OTHER -> c

\* Code points, for Python's ordering of strings.
CodePoint(c) ==
    CASE c = " " -> 32 [] c = "#" -> 35 [] c = "," -> 44 [] c = "-" -> 45
      [] c = "." -> 46 [] c = "/" -> 47
      [] c \in Digits -> 48 + DigitVal(c)
      [] c = "D" -> 68 [] c = "E" -> 69
      [] c = "I" -> 73 [] c = "N" -> 78 [] c = "Q" -> 81 [] c = "S" -> 83
      [] c = "T" -> 84 [] c = "U" -> 85 [] c = "X" -> 88
      [] c = "d" -> 100 [] c = "e" -> 101
      [] c = "i" -> 105 [] c = "n" -> 110 [] c = "q" -> 113 [] c = "s" -> 115
      [] c = "t" -> 116 [] c = "u" -> 117 [] c = "x" -> 120
      [] c = "nbsp" -> 160

Upper(s) == [i \in 1..Len(s) |-> UpperChar(s[i])]

Lower(s) == [i \in 1..Len(s) |-> LowerChar(s[i])]

\* str.strip(): the text without its leading and trailing whitespace.
Strip(s) ==
    LET keep == {i \in 1..Len(s) : ~IsSpace(s[i])}
    IN  IF keep = {} THEN <<>>
        ELSE LET lo == CHOOSE i \in keep : \A j \in keep : i <= j
                 hi == CHOOSE i \in keep : \A j \in keep : j <= i
             IN  SubSeq(s, lo, hi)

\* str.replace(old, new) for single characters.
ReplaceChar(s, old, new) == [i \in 1..Len(s) |-> IF s[i] = old THEN new ELSE s[i]]

\* str.replace(ch, "").
RemoveChar(s, ch) == SelectSeq(s, LAMBDA c : c # ch)

\* The first index >= i of s that holds no digit (Len(s) + 1 when none).
RECURSIVE SkipDigits(_, _)
SkipDigits(s, i) ==
    IF i <= Len(s) /\ IsDigit(s[i]) THEN SkipDigits(s, i + 1) ELSE i

\* The first index >= i of s that holds no whitespace.
RECURSIVE SkipSpaces(_, _)
SkipSpaces(s, i) ==
    IF i <= Len(s) /\ IsSpace(s[i]) THEN SkipSpaces(s, i + 1) ELSE i

\* The "#N/D" marker.
ND == <<"#", "N", "/", "D">>

ITENS == <<"i", "t", "e", "n", "s">>

----------------------------------------------------------------------------
(* norm, CODE_RE, is_itens_table, pick_quantity_from_row *)

norm(s) == Strip(ReplaceChar(s, "nbsp", " "))

\* Mutant of CODE_RE_match: any number of ".digits" groups, (?:\.\d+)*
RECURSIVE SkipDotGroups(_, _)
SkipDotGroups(s, b) ==
    IF b + 1 <= Len(s) /\ s[b] = "." /\ IsDigit(s[b + 1])
    THEN SkipDotGroups(s, SkipDigits(s, b + 1)) ELSE b

CODE_RE_match_multidot(s) ==
    LET a == SkipSpaces(s, 1)
        b == SkipDigits(s, a)
        d == SkipSpaces(s, SkipDotGroups(s, b))
    IN  b > a /\ d = Len(s) + 1

\* CODE_RE.match(s): ^\s*\d+(?:\.\d+)?\s*$
CODE_RE_match(s) ==
    LET a == SkipSpaces(s, 1)
        b == SkipDigits(s, a)
        c == IF b + 1 <= Len(s) /\ s[b] = "." /\ IsDigit(s[b + 1])
             THEN SkipDigits(s, b + 1) ELSE b
        d == SkipSpaces(s, c)
    IN  b > a /\ d = Len(s) + 1

\* Mutant of is_itens_table: "Itens" looked for in every row.
is_itens_table_any_row(table) ==
    \E r \in 1..Len(table) : \E k \in 1..Len(table[r]) : Lower(norm(table[r][k])) = ITENS

is_itens_table(table) ==
    IF Len(table) = 0 THEN FALSE
    ELSE \E k \in 1..Len(table[1]) : Lower(norm(table[1][k])) = ITENS

\* " ".join(cells_text)
RECURSIVE JoinCells(_)
JoinCells(cells) ==
    IF Len(cells) = 0 THEN <<>>
    ELSE IF Len(cells) = 1 THEN cells[1]
    ELSE cells[1] \o <<" ">> \o JoinCells(Tail(cells))

\* The position after (?:\.\d{3})*, matched greedily from position p.
RECURSIVE SkipGroups(_, _)
SkipGroups(s, p) ==
    IF p + 3 <= Len(s) /\ s[p] = "." /\ IsDigit(s[p + 1]) /\ IsDigit(s[p + 2])
       /\ IsDigit(s[p + 3])
    THEN SkipGroups(s, p + 4) ELSE p

\* First alternative at i, \d{1,3}(?:\.\d{3})*,\d+ with n leading digits:
\* the end of the match (exclusive), 0 when there is none.  With fewer
\* groups than the greedy count the next character is ".", never ",".
Alt1End(s, i, n) ==
    IF SkipDigits(s, i) - i < n THEN 0
    ELSE LET p == SkipGroups(s, i + n)
         IN  IF p + 1 <= Len(s) /\ s[p] = "," /\ IsDigit(s[p + 1])
             THEN SkipDigits(s, p + 1) ELSE 0

\* Second alternative at i, \d+,\d+ .
Alt2End(s, i) ==
    LET p == SkipDigits(s, i)
    IN  IF p > i /\ p + 1 <= Len(s) /\ s[p] = "," /\ IsDigit(s[p + 1])
        THEN SkipDigits(s, p + 1) ELSE 0

\* re.search(r"(\d{1,3}(?:\.\d{3})*,\d+|\d+,\d+|\d+)", s): group 1, or the
\* empty text when there is no match.  A match starts at the first digit,
\* where the third alternative always succeeds.
NumberSearch(s) ==
    LET ds == {i \in 1..Len(s) : IsDigit(s[i])}
    IN  IF ds = {} THEN <<>>
        ELSE LET i == CHOOSE x \in ds : \A y \in ds : x <= y
                 e == IF Alt1End(s, i, 3) # 0 THEN Alt1End(s, i, 3)
                      ELSE IF Alt1End(s, i, 2) # 0 THEN Alt1End(s, i, 2)
                      ELSE IF Alt1End(s, i, 1) # 0 THEN Alt1End(s, i, 1)
                      ELSE IF Alt2End(s, i) # 0 THEN Alt2End(s, i)
                      ELSE SkipDigits(s, i)
             IN  SubSeq(s, i, e - 1)

pick_quantity_from_row(cells_text) ==
    IF Len(cells_text) >= 3 /\ norm(cells_text[3]) # <<>>
       /\ Upper(norm(cells_text[3])) # ND
    THEN norm(cells_text[3])
    ELSE NumberSearch(JoinCells(cells_text))

----------------------------------------------------------------------------
(* parse_pt_br_float, consolidate_rows *)

\* Decimal places of a total: the ".2f" of the format.  A float is modelled
\* as the integer number of 10^-FracDigits units it holds; the quantities of
\* the model's inputs have at most FracDigits decimals and no exponent, so
\* every sum is exact in this unit, as it is to two decimals in the code.
FracDigits == 2

RECURSIVE Pow10(_)
Pow10(n) == IF n = 0 THEN 1 ELSE 10 * Pow10(n - 1)

\* int(c) of a run of digits.
RECURSIVE DigitsToInt(_)
DigitsToInt(ds) ==
    IF Len(ds) = 0 THEN 0
    ELSE 10 * DigitsToInt(SubSeq(ds, 1, Len(ds) - 1)) + DigitVal(ds[Len(ds)])

\* float(s) over the model's alphabet: [ws] [-] (DIGITS [. [DIGITS]] | . DIGITS)
\* [ws]; no text of the model's inputs holds an exponent, "inf" or "nan".
\* ok is FALSE where float() raises ValueError; val is the value in
\* 10^-FracDigits units (decimals past FracDigits are outside the inputs).
PyFloat(s) ==
    LET t    == Strip(s)
        neg  == Len(t) > 0 /\ t[1] = "-"
        body == IF neg THEN Tail(t) ELSE t
        e    == SkipDigits(body, 1)
        dot  == e <= Len(body) /\ body[e] = "."
        f    == IF dot THEN SkipDigits(body, e + 1) ELSE e
        ip   == SubSeq(body, 1, e - 1)
        fp   == IF dot THEN SubSeq(body, e + 1, f - 1) ELSE <<>>
        fpad == SubSeq(fp \o [i \in 1..FracDigits |-> "0"], 1, FracDigits)
        mag  == DigitsToInt(ip) * Pow10(FracDigits) + DigitsToInt(fpad)
    IN  IF f = Len(body) + 1 /\ Len(ip) + Len(fp) > 0
        THEN [ok |-> TRUE, val |-> IF neg THEN 0 - mag ELSE mag]
        ELSE [ok |-> FALSE, val |-> 0]

parse_pt_br_float(s) ==
    LET clean == ReplaceChar(RemoveChar(s, "."), ",", ".")
    IN  IF PyFloat(clean).ok THEN PyFloat(clean).val ELSE 0

\* Mutant of AddToSums: sums[code] = val
AddToSums_assign(d, code, val) ==
    IF \E k \in 1..Len(d) : d[k][1] = code
    THEN [k \in 1..Len(d) |-> IF d[k][1] = code THEN <<code, val>> ELSE d[k]]
    ELSE Append(d, <<code, val>>)

\* sums[code] += val on a defaultdict(float) whose keys keep insertion
\* order: a sequence of <<code, total>>.
AddToSums(d, code, val) ==
    IF \E k \in 1..Len(d) : d[k][1] = code
    THEN [k \in 1..Len(d) |-> IF d[k][1] = code THEN <<code, d[k][2] + val>> ELSE d[k]]
    ELSE Append(d, <<code, 0 + val>>)

\* The summing loop "for code, qty_str in rows" from sums d over rows rs.
RECURSIVE Accumulate(_, _)
Accumulate(d, rs) ==
    IF Len(rs) = 0 THEN d
    ELSE Accumulate(AddToSums(d, rs[1][1], parse_pt_br_float(rs[1][2])), Tail(rs))

\* re.split(r'(\d+)', k[i:]): non-digit run, digit run, ...,
\* non-digit run (runs at the ends may be empty); digit runs become ints.
RECURSIVE SplitKey(_, _)
SplitKey(k, i) ==
    LET ds == {j \in i..Len(k) : IsDigit(k[j])}
    IN  IF ds = {} THEN << [num |-> FALSE, n |-> 0, s |-> SubSeq(k, i, Len(k))] >>
        ELSE LET j == CHOOSE x \in ds : \A y \in ds : x <= y
                 e == SkipDigits(k, j)
             IN  << [num |-> FALSE, n |-> 0, s |-> SubSeq(k, i, j - 1)],
                    [num |-> TRUE, n |-> DigitsToInt(SubSeq(k, j, e - 1)), s |-> <<>>] >>
                 \o SplitKey(k, e)

\* Mutant of natural_key: the code itself as the key (lexicographic order).
natural_key_text(k) == << [num |-> FALSE, n |-> 0, s |-> k] >>

natural_key(k) == SplitKey(k, 1)

\* Python's < on str.
StrLess(a, b) ==
    \E i \in 1..(Len(b)) :
        /\ i <= Len(a) + 1
        /\ \A j \in 1..(i - 1) : a[j] = b[j]
        /\ (i = Len(a) + 1 \/ CodePoint(a[i]) < CodePoint(b[i]))

\* Python's < on two elements of a key (both ints or both strs: the runs of
\* re.split alternate, so positions agree in type).
ElemLess(x, y) == IF x.num THEN x.n < y.n ELSE StrLess(x.s, y.s)

\* Python's < on lists.
KeyLess(a, b) ==
    \E i \in 1..(Len(b)) :
        /\ i <= Len(a) + 1
        /\ \A j \in 1..(i - 1) : a[j] = b[j]
        /\ (i = Len(a) + 1 \/ (a[i] # b[i] /\ ElemLess(a[i], b[i])))

\* x placed in a list sorted by key, after every element not greater.
InsertSorted(sq, x) ==
    LET gt == {j \in 1..Len(sq) : KeyLess(natural_key(x[1]), natural_key(sq[j][1]))}
        p  == IF gt = {} THEN Len(sq) + 1 ELSE CHOOSE j \in gt : \A h \in gt : j <= h
    IN  SubSeq(sq, 1, p - 1) \o <<x>> \o SubSeq(sq, p, Len(sq))

\* sorted(sums.keys(), key=natural_key), stable, with each code's sum.
RECURSIVE SortSums(_)
SortSums(d) ==
    IF Len(d) = 0 THEN <<>>
    ELSE InsertSorted(SortSums(SubSeq(d, 1, Len(d) - 1)), d[Len(d)])

\* The decimal digits of n >= 0.
RECURSIVE IntDigits(_)
IntDigits(n) ==
    IF n < 10 THEN <<DigitChar(n)>> ELSE Append(IntDigits(n \div 10), DigitChar(n % 10))

\* Digits with "," between groups of three from the right.
RECURSIVE Grouped(_)
Grouped(ds) ==
    IF Len(ds) <= 3 THEN ds
    ELSE Grouped(SubSeq(ds, 1, Len(ds) - 3)) \o <<",">> \o SubSeq(ds, Len(ds) - 2, Len(ds))

\* f"{total:,.2f}"
FormatGrouped(v) ==
    LET a    == IF v < 0 THEN 0 - v ELSE v
        frac == IntDigits(a % Pow10(FracDigits))
        pad  == [i \in 1..(FracDigits - Len(frac)) |-> "0"] \o frac
    IN  (IF v < 0 THEN <<"-">> ELSE <<>>) \o Grouped(IntDigits(a \div Pow10(FracDigits)))
        \o <<".">> \o pad

\* .replace(",", "TEMP").replace(".", ",").replace("TEMP", ".")
FormatPtBr(v) ==
    ReplaceChar(ReplaceChar(ReplaceChar(FormatGrouped(v), ",", "TEMP"), ".", ","), "TEMP", ".")

FormatAll(d) == [k \in 1..Len(d) |-> <<d[k][1], FormatPtBr(d[k][2])>>]

consolidate_rows(rs) == FormatAll(SortSums(Accumulate(<<>>, rs)))

----------------------------------------------------------------------------
(* Inputs *)

\* Largest document: the sum over its tables of max(1, number of rows).
MaxDocSize == 4

\* Longest argument of consolidate_rows checked on its own.
MaxConsRows == 4

cEmpty  == <<>>
cItens  == <<"I", "t", "e", "n", "s">>
cITENS  == <<"nbsp", "I", "T", "E", "N", "S", " ">>
cItensX == <<"I", "t", "e", "n", "s", " ", "x">>
cQtd    == <<"Q", "t", "d">>
cUn     == <<"u", "n">>
cND     == <<"#", "N", "/", "D">>
cNd     == <<"nbsp", "#", "n", "/", "d">>
c1      == <<"1">>
c01     == <<" ", "0", "1", "nbsp">>
c17_1   == <<"1", "7", ".", "1">>
c1_2_3  == <<"1", ".", "2", ".", "3">>
q5      == <<"5", ",", "0", "0">>
q3_5    == <<"nbsp", "3", ",", "5", "0">>

\* First rows of tables: a target (a valid code first, then "ITENS" between
\* a non-breaking space and a space) and not a target ("Itens x" is not
\* "itens").
HeaderRows ==
    { <<c1, cITENS, q5>>, <<cItensX, cQtd, q5>> }

\* Rows after the first.
DataRows ==
    { <<>>,                        \* no cells
      <<cEmpty, cEmpty, q5>>,      \* code empty
      <<cNd, cEmpty, q5>>,         \* code "#n/d"
      <<c1_2_3, cEmpty, q5>>,      \* code with two dots
      <<cItens, cQtd>>,            \* "Itens" outside the first row
      <<c1, cEmpty, q5>>,          \* ("1", "5,00")
      <<c01, cEmpty, q3_5>>,       \* ("01", "3,50")
      <<c17_1, cUn>>,              \* valid code, no third cell, no other digit
      <<c17_1, cUn, cND>> }        \* valid code, third cell "#N/D"

\* The shapes of documents: a sequence with, per table, its number of rows.
\* A table counts for max(1, rows) in the size of a document.
RECURSIVE ShapesOfSize(_)
ShapesOfSize(n) ==
    IF n = 0 THEN {<<>>}
    ELSE UNION {{<<k>> \o sh : sh \in ShapesOfSize(n - (IF k = 0 THEN 1 ELSE k))} : k \in 0..n}

Shapes == UNION {ShapesOfSize(n) : n \in 0..MaxDocSize}

\* Tables with rows among the first t tables of a shape, and rows after the
\* first in them.
RECURSIVE HeadersUpTo(_, _)
HeadersUpTo(sh, t) ==
    IF t = 0 THEN 0 ELSE HeadersUpTo(sh, t - 1) + (IF sh[t] > 0 THEN 1 ELSE 0)

RECURSIVE DataUpTo(_, _)
DataUpTo(sh, t) ==
    IF t = 0 THEN 0 ELSE DataUpTo(sh, t - 1) + (IF sh[t] > 1 THEN sh[t] - 1 ELSE 0)

\* The document of shape sh with first rows hs and other rows ds, in order.
BuildDoc(sh, hs, ds) ==
    [t \in 1..Len(sh) |->
        IF sh[t] = 0 THEN <<>>
        ELSE [r \in 1..sh[t] |->
                 IF r = 1 THEN hs[HeadersUpTo(sh, t)]
                 ELSE ds[DataUpTo(sh, t - 1) + r - 1]]]

\* ExtractedRows given to consolidate_rows on its own.
ConsPool ==
    { << <<"1">>, <<"5", ",", "0", "0">> >>,
      << <<"0", "1">>, <<"3", ",", "5", "0">> >>,
      << <<"2", ".", "1">>, <<"5", ",", "0", "0">> >>,
      << <<"1", "7", ".", "2">>, <<"1", ".", "2", "3", "4", ",", "5", "6">> >>,
      << <<"1", "7", ".", "2">>, <<"u", "n">> >>,
      << <<"1", "7", ".", "1", "0">>, <<"3", ",", "5", "0">> >>,
      << <<"1", "7", ".", "1", "0", "0">>, <<"1", "0">> >> }

----------------------------------------------------------------------------
(* run_gui and extract_code_qty *)

Init ==
    /\ pc = "ask_open"
    /\ docx_path = "" /\ out_xlsx = ""
    /\ doc = <<>> /\ t_i = 0 /\ r_i = 0
    /\ results = <<>> /\ origin = <<>> /\ logs = <<>> /\ itens_tables = 0
    /\ rows = <<>> /\ meta = <<>>
    /\ xlsx_file = <<>> /\ log_file = <<>> /\ events = <<>>
    /\ cons_in = <<>> /\ c_i = 0 /\ sums = <<>> /\ consolidated = <<>>

consVars == <<cons_in, c_i, sums, consolidated>>
extractVars == <<doc, t_i, r_i, results, origin, logs, itens_tables>>
fileVars == <<xlsx_file, log_file>>

\* filedialog.askopenfilename; "if not docx_path: return"
AskOpen ==
    /\ pc = "ask_open"
    /\ \E p \in {"", "in.docx"} :
        /\ docx_path' = p
        /\ pc' = IF p = "" THEN "done" ELSE "ask_save"
    /\ events' = Append(events, "askopen")
    /\ UNCHANGED <<out_xlsx, rows, meta>>
    /\ UNCHANGED <<extractVars, fileVars, consVars>>

\* filedialog.asksaveasfilename; "if not out_xlsx: return"
AskSave ==
    /\ pc = "ask_save"
    /\ \E p \in {"", "out.xlsx"} :
        /\ out_xlsx' = p
        /\ pc' = IF p = "" THEN "done" ELSE "load"
    /\ events' = Append(events, "asksave")
    /\ UNCHANGED <<docx_path, rows, meta>>
    /\ UNCHANGED <<extractVars, fileVars, consVars>>

\* doc = Document(docx_path): the file holds any document of the input set.
LoadDocument ==
    /\ pc = "load"
    /\ \E sh \in Shapes :
           \E hs \in [1..HeadersUpTo(sh, Len(sh)) -> HeaderRows] :
               \E ds \in [1..DataUpTo(sh, Len(sh)) -> DataRows] :
                   doc' = BuildDoc(sh, hs, ds)
    /\ t_i' = 0 /\ r_i' = 0
    /\ results' = <<>> /\ origin' = <<>> /\ logs' = <<>> /\ itens_tables' = 0
    /\ events' = Append(events, "read")
    /\ pc' = "tables"
    /\ UNCHANGED <<docx_path, out_xlsx, rows, meta>>
    /\ UNCHANGED <<fileVars, consVars>>

\* Document(docx_path) raises (not a .docx, unreadable, ...).
LoadFails ==
    /\ pc = "load"
    /\ events' = events \o <<"read", "raise">>
    /\ pc' = "except"
    /\ UNCHANGED <<docx_path, out_xlsx, rows, meta>>
    /\ UNCHANGED <<extractVars, fileVars, consVars>>

\* Mutant of NextTable: the inner loop starts at the first row (table.rows
\* instead of table.rows[1:]).
NextTable_with_header ==
    /\ pc = "tables"
    /\ t_i < Len(doc)
    /\ t_i' = t_i + 1
    /\ IF is_itens_table(doc[t_i + 1])
       THEN /\ itens_tables' = itens_tables + 1
            /\ r_i' = 0
            /\ pc' = "rows"
       ELSE UNCHANGED <<itens_tables, r_i, pc>>
    /\ UNCHANGED <<docx_path, out_xlsx, doc, results, origin, logs, rows, meta, events>>
    /\ UNCHANGED <<fileVars, consVars>>

\* One step of "for t_i, table in enumerate(doc.tables, start=1)": the
\* classification of the next table; a target with rows after the first
\* enters the inner loop.
NextTable ==
    /\ pc = "tables"
    /\ t_i < Len(doc)
    /\ t_i' = t_i + 1
    /\ IF is_itens_table(doc[t_i + 1])
       THEN /\ itens_tables' = itens_tables + 1
            /\ r_i' = 1
            /\ pc' = IF Len(doc[t_i + 1]) > 1 THEN "rows" ELSE "tables"
       ELSE UNCHANGED <<itens_tables, r_i, pc>>
    /\ UNCHANGED <<docx_path, out_xlsx, doc, results, origin, logs, rows, meta, events>>
    /\ UNCHANGED <<fileVars, consVars>>

\* Mutant of RowOutcome: the grammar is checked before the empty / "#N/D" code.
RowOutcome_grammar_first(t, r, row) ==
    LET cells == [k \in 1..Len(row) |-> norm(row[k])]
        code  == norm(cells[1])
        qty   == pick_quantity_from_row(cells)
    IN  IF Len(cells) = 0
        THEN [skip |-> TRUE, log |-> <<t, r, "skip_empty_row", <<>> >>]
        ELSE IF ~CODE_RE_match(code)
        THEN [skip |-> TRUE, log |-> <<t, r, "skip_code_invalid", code>>]
        ELSE IF code = <<>> \/ Upper(code) = ND
        THEN [skip |-> TRUE, log |-> <<t, r, "skip_code_empty_or_ND", <<>> >>]
        ELSE IF qty = <<>> \/ Upper(qty) = ND
        THEN [skip |-> TRUE, log |-> <<t, r, "skip_qty_empty_or_ND", code>>]
        ELSE [skip |-> FALSE, pair |-> <<Strip(code), Strip(qty)>>]

\* The outcome of the inner loop's body for a row at (t, r): a skip record
\* or an accepted pair.
RowOutcome(t, r, row) ==
    LET cells == [k \in 1..Len(row) |-> norm(row[k])]
        code  == norm(cells[1])
        qty   == pick_quantity_from_row(cells)
    IN  IF Len(cells) = 0
        THEN [skip |-> TRUE, log |-> <<t, r, "skip_empty_row", <<>> >>]
        ELSE IF code = <<>> \/ Upper(code) = ND
        THEN [skip |-> TRUE, log |-> <<t, r, "skip_code_empty_or_ND", <<>> >>]
        ELSE IF ~CODE_RE_match(code)
        THEN [skip |-> TRUE, log |-> <<t, r, "skip_code_invalid", code>>]
        ELSE IF qty = <<>> \/ Upper(qty) = ND
        THEN [skip |-> TRUE, log |-> <<t, r, "skip_qty_empty_or_ND", code>>]
        ELSE [skip |-> FALSE, pair |-> <<Strip(code), Strip(qty)>>]

\* Mutant of NextRow: a pair already in results is dropped (the "seen" set
\* the source says it removed).
NextRow_dedup ==
    /\ pc = "rows"
    /\ r_i < Len(doc[t_i])
    /\ r_i' = r_i + 1
    /\ LET o == RowOutcome(t_i, r_i + 1, doc[t_i][r_i + 1])
       IN  IF o.skip
           THEN /\ logs' = Append(logs, o.log)
                /\ UNCHANGED <<results, origin>>
           ELSE IF \E k \in 1..Len(results) : results[k] = o.pair
           THEN UNCHANGED <<results, origin, logs>>
           ELSE /\ results' = Append(results, o.pair)
                /\ origin' = Append(origin, <<t_i, r_i + 1>>)
                /\ UNCHANGED logs
    /\ pc' = IF r_i + 1 = Len(doc[t_i]) THEN "tables" ELSE "rows"
    /\ UNCHANGED <<docx_path, out_xlsx, doc, t_i, itens_tables, rows, meta, events>>
    /\ UNCHANGED <<fileVars, consVars>>

\* One step of "for r_i, row in enumerate(table.rows[1:], start=2)".
NextRow ==
    /\ pc = "rows"
    /\ r_i < Len(doc[t_i])
    /\ r_i' = r_i + 1
    /\ LET o == RowOutcome(t_i, r_i + 1, doc[t_i][r_i + 1])
       IN  IF o.skip
           THEN /\ logs' = Append(logs, o.log)
                /\ UNCHANGED <<results, origin>>
           ELSE /\ results' = Append(results, o.pair)
                /\ origin' = Append(origin, <<t_i, r_i + 1>>)
                /\ UNCHANGED logs
    /\ pc' = IF r_i + 1 = Len(doc[t_i]) THEN "tables" ELSE "rows"
    /\ UNCHANGED <<docx_path, out_xlsx, doc, t_i, itens_tables, rows, meta, events>>
    /\ UNCHANGED <<fileVars, consVars>>

\* After the loops: meta = {...}
BuildMeta ==
    /\ pc = "tables"
    /\ t_i = Len(doc)
    /\ meta' = << [tables_total |-> Len(doc), itens_tables |-> itens_tables,
                   rows_extracted |-> Len(results), rows_ignored |-> Len(logs),
                   ignored_details |-> logs] >>
    /\ pc' = "return"
    /\ UNCHANGED <<docx_path, out_xlsx, rows, events>>
    /\ UNCHANGED <<extractVars, fileVars, consVars>>

\* "return results, meta": the locals of extract_code_qty go out of scope.
ExtractReturn ==
    /\ pc = "return"
    /\ rows' = results
    /\ doc' = <<>> /\ t_i' = 0 /\ r_i' = 0
    /\ results' = <<>> /\ origin' = <<>> /\ logs' = <<>> /\ itens_tables' = 0
    /\ pc' = "check"
    /\ UNCHANGED <<docx_path, out_xlsx, meta, events>>
    /\ UNCHANGED <<fileVars, consVars>>

\* Mutant of CheckRows: the warning without the return.
CheckRows_no_return ==
    /\ pc = "check"
    /\ IF Len(rows) = 0
       THEN events' = Append(events, "warning:Sem dados")
       ELSE UNCHANGED events
    /\ pc' = "save_xlsx"
    /\ UNCHANGED <<docx_path, out_xlsx, rows, meta>>
    /\ UNCHANGED <<extractVars, fileVars, consVars>>

\* "if not rows: showwarning(...); return"
CheckRows ==
    /\ pc = "check"
    /\ IF Len(rows) = 0
       THEN /\ events' = Append(events, "warning:Sem dados")
            /\ pc' = "done"
       ELSE /\ pc' = "save_xlsx"
            /\ UNCHANGED events
    /\ UNCHANGED <<docx_path, out_xlsx, rows, meta>>
    /\ UNCHANGED <<extractVars, fileVars, consVars>>

\* save_xlsx(rows, out_xlsx): the two sheets, then wb.save.
SaveXlsx ==
    /\ pc = "save_xlsx"
    /\ xlsx_file' = << [Itens |-> rows, Consolidado |-> consolidate_rows(rows)] >>
    /\ events' = Append(events, "write_xlsx")
    /\ pc' = "save_log"
    /\ UNCHANGED <<docx_path, out_xlsx, rows, meta, log_file>>
    /\ UNCHANGED <<extractVars, consVars>>

\* save_xlsx raises (the path cannot be written).
SaveXlsxFails ==
    /\ pc = "save_xlsx"
    /\ events' = Append(events, "raise")
    /\ pc' = "except"
    /\ UNCHANGED <<docx_path, out_xlsx, rows, meta>>
    /\ UNCHANGED <<extractVars, fileVars, consVars>>

\* save_log(meta, rows, docx_path, out_xlsx)
SaveLog ==
    /\ pc = "save_log"
    /\ log_file' = << [meta |-> meta[1], consolidated |-> consolidate_rows(rows),
                       rows |-> rows] >>
    /\ events' = Append(events, "write_log")
    /\ pc' = "show_info"
    /\ UNCHANGED <<docx_path, out_xlsx, rows, meta, xlsx_file>>
    /\ UNCHANGED <<extractVars, consVars>>

\* save_log raises (open() fails).
SaveLogFails ==
    /\ pc = "save_log"
    /\ events' = Append(events, "raise")
    /\ pc' = "except"
    /\ UNCHANGED <<docx_path, out_xlsx, rows, meta>>
    /\ UNCHANGED <<extractVars, fileVars, consVars>>

\* messagebox.showinfo("Concluído", ...)
ShowInfo ==
    /\ pc = "show_info"
    /\ events' = Append(events, "info:Concluido")
    /\ pc' = "done"
    /\ UNCHANGED <<docx_path, out_xlsx, rows, meta>>
    /\ UNCHANGED <<extractVars, fileVars, consVars>>

\* "except Exception as e: messagebox.showerror(...)"
ShowError ==
    /\ pc = "except"
    /\ events' = Append(events, "error:Erro")
    /\ pc' = "done"
    /\ UNCHANGED <<docx_path, out_xlsx, rows, meta>>
    /\ UNCHANGED <<extractVars, fileVars, consVars>>

Next ==
    \/ AskOpen \/ AskSave \/ LoadDocument \/ LoadFails
    \/ NextTable \/ NextRow \/ BuildMeta \/ ExtractReturn
    \/ CheckRows \/ SaveXlsx \/ SaveXlsxFails \/ SaveLog \/ SaveLogFails
    \/ ShowInfo \/ ShowError

Spec == Init /\ [][Next]_vars

----------------------------------------------------------------------------
(* consolidate_rows on its own *)

InitCons ==
    /\ pc = "c_sum"
    /\ \E n \in 0..MaxConsRows : cons_in \in [1..n -> ConsPool]
    /\ c_i = 0 /\ sums = <<>> /\ consolidated = <<>>
    /\ docx_path = "" /\ out_xlsx = ""
    /\ doc = <<>> /\ t_i = 0 /\ r_i = 0
    /\ results = <<>> /\ origin = <<>> /\ logs = <<>> /\ itens_tables = 0
    /\ rows = <<>> /\ meta = <<>>
    /\ xlsx_file = <<>> /\ log_file = <<>> /\ events = <<>>

\* One step of "for code, qty_str in rows".
ConsSum ==
    /\ pc = "c_sum"
    /\ c_i < Len(cons_in)
    /\ c_i' = c_i + 1
    /\ sums' = AddToSums(sums, cons_in[c_i + 1][1], parse_pt_br_float(cons_in[c_i + 1][2]))
    /\ UNCHANGED <<pc, cons_in, consolidated>>
    /\ UNCHANGED <<docx_path, out_xlsx, rows, meta, events>>
    /\ UNCHANGED <<extractVars, fileVars>>

\* The sort and the formatting loop, then "return consolidated".
ConsFinish ==
    /\ pc = "c_sum"
    /\ c_i = Len(cons_in)
    /\ consolidated' = FormatAll(SortSums(sums))
    /\ pc' = "c_done"
    /\ UNCHANGED <<cons_in, c_i, sums>>
    /\ UNCHANGED <<docx_path, out_xlsx, rows, meta, events>>
    /\ UNCHANGED <<extractVars, fileVars>>

NextCons == ConsSum \/ ConsFinish

SpecCons == InitCons /\ [][NextCons]_vars

----------------------------------------------------------------------------
(* Properties *)

\* The code grammar DIGITS ('.' DIGITS)? on the whole text.
IsCodeGrammar(s) ==
    /\ Len(s) >= 1
    /\ \A i \in 1..Len(s) : s[i] \in Digits \cup {"."}
    /\ Cardinality({i \in 1..Len(s) : s[i] = "."}) <= 1
    /\ s[1] # "." /\ s[Len(s)] # "."

\* A target table: it has rows and a cell of its first row is "itens" once
\* trimmed (non-breaking spaces included) and lower-cased.
IsTargetTable(table) ==
    /\ Len(table) >= 1
    /\ \E k \in 1..Len(table[1]) : Lower(Strip(ReplaceChar(table[1][k], "nbsp", " "))) = ITENS

PosLess(a, b) == a[1] < b[1] \/ (a[1] = b[1] /\ a[2] < b[2])

\* The rows after the first of the target tables of doc.
DataRowsOfDoc ==
    UNION {{<<t, r>> : r \in 2..Len(doc[t])} : t \in {x \in 1..Len(doc) : IsTargetTable(doc[x])}}

AcceptedOf(t) == Cardinality({k \in 1..Len(origin) : origin[k][1] = t})

SkippedOf(t) == Cardinality({k \in 1..Len(logs) : logs[k][1] = t})

\* C1: when extract_code_qty finishes, every target table has accepted rows
\* + skip records = rows after its first, no pair and no skip record comes
\* from a first row, and rows_extracted + rows_ignored is the number of rows
\* after the first over all target tables.
C1_RowsAccounted ==
    pc = "return" =>
        /\ Len(origin) = Len(results)
        /\ \A t \in 1..Len(doc) :
               IsTargetTable(doc[t]) =>
                   /\ AcceptedOf(t) + SkippedOf(t) = Len(doc[t]) - 1
                   /\ AcceptedOf(t) <= Len(doc[t]) - 1
        /\ \A k \in 1..Len(origin) : origin[k][2] >= 2
        /\ \A k \in 1..Len(logs) : logs[k][2] >= 2
        /\ meta[1].rows_extracted = Len(results)
        /\ meta[1].rows_ignored = Len(logs)
        /\ meta[1].rows_extracted + meta[1].rows_ignored = Cardinality(DataRowsOfDoc)

\* C1's case: a finished extraction with a target table whose first row
\* starts with a valid code, with one row accepted and one skipped.
C1_Witness ==
    /\ pc = "return"
    /\ \E t \in 1..Len(doc) :
           /\ IsTargetTable(doc[t])
           /\ IsCodeGrammar(norm(doc[t][1][1]))
           /\ AcceptedOf(t) >= 1 /\ SkippedOf(t) >= 1

\* A row with a valid code and no quantity: the third cell is absent, empty
\* or "#N/D" in any case, and no cell but the first holds a digit.
NoQuantityRow(row) ==
    /\ Len(row) >= 1
    /\ IsCodeGrammar(norm(row[1]))
    /\ \/ Len(row) < 3
       \/ norm(row[3]) = <<>>
       \/ Upper(norm(row[3])) = ND
    /\ \A k \in 2..Len(row) : \A i \in 1..Len(row[k]) : row[k][i] \notin Digits

\* C2: when extract_code_qty finishes, every row after the first of a target
\* table with a valid code and no quantity has the skip record
\* (t, r, "skip_qty_empty_or_ND", code) and no accepted pair.
C2_NoQuantitySkipped ==
    pc = "return" =>
        \A p \in DataRowsOfDoc :
            NoQuantityRow(doc[p[1]][p[2]]) =>
                /\ \E k \in 1..Len(logs) :
                       logs[k] = <<p[1], p[2], "skip_qty_empty_or_ND", norm(doc[p[1]][p[2]][1])>>
                /\ \A k \in 1..Len(origin) : origin[k] # p

\* The rearrangements of a sequence.
PermsOf(sq) ==
    {[i \in 1..Len(sq) |-> sq[f[i]]] : f \in Permutations(1..Len(sq))}

\* C3: consolidate_rows returns the same sequence for every permutation of
\* its argument.
C3_OrderIndependent ==
    pc = "c_done" => \A p \in PermsOf(cons_in) : consolidate_rows(p) = consolidated

RECURSIVE SumOver(_, _)
SumOver(f, S) ==
    IF S = {} THEN 0
    ELSE LET x == CHOOSE y \in S : TRUE IN f[x] + SumOver(f, S \ {x})

\* Whether float() accepts the quantity once "." is removed and "," is ".".
Parses(q) == PyFloat(ReplaceChar(RemoveChar(q, "."), ",", ".")).ok

\* The sum of the quantities that parse among the rows of rs with the code.
TotalOf(rs, code) ==
    LET S == {j \in 1..Len(rs) : rs[j][1] = code /\ Parses(rs[j][2])}
    IN  SumOver([j \in 1..Len(rs) |-> parse_pt_br_float(rs[j][2])], S)

\* C4: the result has exactly one entry per code of the argument and none
\* for another code, and each entry's text reads back as the sum of the
\* quantities of the rows with its code, those that do not parse counting 0.
C4_OneEntryPerCodeWithSum ==
    pc = "c_done" =>
        /\ {consolidated[k][1] : k \in 1..Len(consolidated)}
               = {cons_in[j][1] : j \in 1..Len(cons_in)}
        /\ \A j, k \in 1..Len(consolidated) :
               consolidated[j][1] = consolidated[k][1] => j = k
        /\ \A k \in 1..Len(consolidated) :
               /\ Parses(consolidated[k][2])
               /\ parse_pt_br_float(consolidated[k][2]) = TotalOf(cons_in, consolidated[k][1])

\* C4's case: a code with a quantity that parses and one that does not,
\* beside another code, consolidated.
C4_Witness ==
    /\ pc = "c_done"
    /\ Len(consolidated) >= 2
    /\ \E i, j \in 1..Len(cons_in) :
           /\ cons_in[i][1] = cons_in[j][1]
           /\ Parses(cons_in[i][2]) /\ ~Parses(cons_in[j][2])
           /\ \E k \in 1..Len(consolidated) :
                  /\ consolidated[k][1] = cons_in[i][1]
                  /\ parse_pt_br_float(consolidated[k][2]) > 0

\* The number before the dot of a code, whether it has a dot, and the number
\* after it.
CodeMajor(c) == DigitsToInt(SubSeq(c, 1, SkipDigits(c, 1) - 1))

CodeHasDot(c) == SkipDigits(c, 1) <= Len(c)

CodeMinor(c) == DigitsToInt(SubSeq(c, SkipDigits(c, 1) + 1, Len(c)))

\* Natural order of two codes of the grammar: not greater.
NaturalLeq(a, b) ==
    \/ CodeMajor(a) < CodeMajor(b)
    \/ /\ CodeMajor(a) = CodeMajor(b)
       /\ \/ ~CodeHasDot(a)
          \/ CodeHasDot(b) /\ CodeMinor(a) <= CodeMinor(b)

PositionOf(code) == CHOOSE k \in 1..Len(consolidated) : consolidated[k][1] = code

HasCode(code) == \E k \in 1..Len(consolidated) : consolidated[k][1] = code

\* C5: adjacent entries of the result are in natural order of their codes,
\* and 2.1, 17.2, 17.10, 17.100 come in this order.
C5_NaturalOrder ==
    pc = "c_done" =>
        /\ \A k \in 1..(Len(consolidated) - 1) :
               NaturalLeq(consolidated[k][1], consolidated[k + 1][1])
        /\ HasCode(<<"2", ".", "1">>) /\ HasCode(<<"1", "7", ".", "2">>)
               => PositionOf(<<"2", ".", "1">>) < PositionOf(<<"1", "7", ".", "2">>)
        /\ HasCode(<<"1", "7", ".", "2">>) /\ HasCode(<<"1", "7", ".", "1", "0">>)
               => PositionOf(<<"1", "7", ".", "2">>) < PositionOf(<<"1", "7", ".", "1", "0">>)
        /\ HasCode(<<"1", "7", ".", "1", "0">>) /\ HasCode(<<"1", "7", ".", "1", "0", "0">>)
               => PositionOf(<<"1", "7", ".", "1", "0">>)
                      < PositionOf(<<"1", "7", ".", "1", "0", "0">>)

\* C5's case: the four codes consolidated from an argument that does not
\* give them in natural order.
C5_Witness ==
    /\ pc = "c_done"
    /\ HasCode(<<"2", ".", "1">>) /\ HasCode(<<"1", "7", ".", "2">>)
    /\ HasCode(<<"1", "7", ".", "1", "0">>) /\ HasCode(<<"1", "7", ".", "1", "0", "0">>)
    /\ cons_in[1][1] = <<"1", "7", ".", "1", "0", "0">>
    /\ cons_in[Len(cons_in)][1] = <<"2", ".", "1">>

IsGoodPair(x) ==
    /\ IsCodeGrammar(x[1])
    /\ x[2] # <<>>
    /\ Upper(x[2]) # ND

\* C6: every accepted pair, in results and in what extract_code_qty returned,
\* has a code of the grammar and a quantity that is neither empty nor "#N/D"
\* in any case.
C6_PairsWellFormed ==
    /\ \A k \in 1..Len(results) : IsGoodPair(results[k])
    /\ \A k \in 1..Len(rows) : IsGoodPair(rows[k])

\* C6's case: a pair accepted from a code cell and a quantity cell that
\* carry spaces and non-breaking spaces, and a row with code 1.2.3 refused.
C6_Witness ==
    /\ pc = "return"
    /\ \E k \in 1..Len(results) :
           /\ doc[origin[k][1]][origin[k][2]] = <<c01, cEmpty, q3_5>>
           /\ results[k] = << <<"0", "1">>, <<"3", ",", "5", "0">> >>
    /\ \E k \in 1..Len(logs) : logs[k][4] = c1_2_3

\* C7: when extract_code_qty finishes, only rows of target tables have given
\* pairs or skip records and itens_tables counts the target tables; a run
\* whose document had none returned no rows and ended with the "Sem dados"
\* warning and nothing written.
C7_OnlyTargetTables ==
    /\ pc = "return" =>
           /\ \A k \in 1..Len(origin) : IsTargetTable(doc[origin[k][1]])
           /\ \A k \in 1..Len(logs) : IsTargetTable(doc[logs[k][1]])
           /\ (\A t \in 1..Len(doc) : ~IsTargetTable(doc[t]))
                  => results = <<>> /\ logs = <<>> /\ itens_tables = 0
           /\ meta[1].itens_tables
                  = Cardinality({t \in 1..Len(doc) : IsTargetTable(doc[t])})
    /\ (pc = "done" /\ Len(meta) = 1 /\ meta[1].itens_tables = 0) =>
           /\ rows = <<>>
           /\ meta[1].rows_extracted = 0 /\ meta[1].rows_ignored = 0
           /\ events[Len(events)] = "warning:Sem dados"
           /\ xlsx_file = <<>> /\ log_file = <<>>

\* C7's case: a finished extraction of a document without target table that
\* has a table with "Itens" in its second row and a row that would be
\* accepted.
C7_Witness ==
    /\ pc = "return"
    /\ meta[1].itens_tables = 0
    /\ \E t \in 1..Len(doc) :
           /\ Len(doc[t]) = 3
           /\ doc[t][2] = <<cItens, cQtd>>
           /\ doc[t][3] = <<c1, cEmpty, q5>>

\* What the loop's body is to do with a row: the first failing check and the
\* value logged with it, or "accept".
ExpectedCheck(row) ==
    IF Len(row) = 0 THEN <<"skip_empty_row", <<>> >>
    ELSE LET cells == [k \in 1..Len(row) |-> norm(row[k])]
             code  == cells[1]
             qty   == pick_quantity_from_row(cells)
         IN  IF code = <<>> \/ Upper(code) = ND THEN <<"skip_code_empty_or_ND", <<>> >>
             ELSE IF ~IsCodeGrammar(code) THEN <<"skip_code_invalid", code>>
             ELSE IF qty = <<>> \/ Upper(qty) = ND THEN <<"skip_qty_empty_or_ND", code>>
             ELSE <<"accept", code>>

Accepted(p) == ExpectedCheck(doc[p[1]][p[2]])[1] = "accept"

\* The pair of an accepted row: its trimmed code and its quantity.
PairOf(row) ==
    << norm(row[1]), pick_quantity_from_row([c \in 1..Len(row) |-> norm(row[c])]) >>

\* C8: when extract_code_qty finishes, results holds one pair per accepted
\* row after the first of the target tables, each the pair of its row, in
\* the order of the document, equal pairs included.
C8_AllRowsInOrder ==
    pc = "return" =>
        LET acc == {p \in DataRowsOfDoc : Accepted(p)}
        IN  /\ Len(origin) = Len(results)
            /\ {origin[k] : k \in 1..Len(origin)} = acc
            /\ \A k \in 1..Len(origin) :
                   results[k] = PairOf(doc[origin[k][1]][origin[k][2]])
            /\ \A k \in 1..(Len(origin) - 1) : PosLess(origin[k], origin[k + 1])

\* C8's case: a finished extraction with the same pair accepted from two
\* tables.
C8_Witness ==
    /\ pc = "return"
    /\ \E j, k \in 1..Len(results) :
           /\ j < k
           /\ results[j] = results[k]
           /\ origin[j][1] # origin[k][1]

\* C9: when extract_code_qty finishes, the skip records are, in the order of
\* the document, those of the rejected rows after the first of the target
\* tables: one per row, with the table's position among all tables, the
\* row's position in its table (2 or more), and the reason and value of the
\* first failing check.
C9_SkipRecords ==
    pc = "return" =>
        LET rej == {p \in DataRowsOfDoc : ~Accepted(p)}
        IN  /\ {<<logs[k][1], logs[k][2]>> : k \in 1..Len(logs)} = rej
            /\ \A k \in 1..Len(logs) :
                   /\ logs[k][2] >= 2
                   /\ <<logs[k][3], logs[k][4]>> = ExpectedCheck(doc[logs[k][1]][logs[k][2]])
            /\ \A k \in 1..(Len(logs) - 1) :
                   PosLess(<<logs[k][1], logs[k][2]>>, <<logs[k + 1][1], logs[k + 1][2]>>)

\* C9's case: a finished extraction whose second table, after a table that
\* is no target, gave a skip record for an empty code and then one for an
\* invalid code.
C9_Witness ==
    /\ pc = "return"
    /\ Len(doc) >= 2
    /\ ~IsTargetTable(doc[1])
    /\ \E j, k \in 1..Len(logs) :
           /\ j < k
           /\ logs[j][1] = 2 /\ logs[k][1] = 2
           /\ logs[j][3] = "skip_code_empty_or_ND"
           /\ logs[k][3] = "skip_code_invalid"

CountOf(e) == Cardinality({k \in 1..Len(events) : events[k] = e})

Has(e) == CountOf(e) > 0

IndexOf(e) == CHOOSE k \in 1..Len(events) : events[k] = e

Boxes == CountOf("warning:Sem dados") + CountOf("info:Concluido") + CountOf("error:Erro")

Cancelled == pc = "done" /\ (docx_path = "" \/ out_xlsx = "")

\* A step is possible at every position but "done".
CanStep ==
    \/ pc \in {"ask_open", "ask_save", "load", "return", "check", "save_xlsx",
               "save_log", "show_info", "except"}
    \/ pc = "tables" /\ t_i <= Len(doc)
    \/ pc = "rows" /\ t_i \in 1..Len(doc) /\ r_i < Len(doc[t_i])

\* A bound on the steps left, by position.
StepsLeft ==
    CASE pc = "done" -> 0
      [] pc = "except" -> 1
      [] pc = "show_info" -> 2
      [] pc = "save_log" -> 3
      [] pc = "save_xlsx" -> 4
      [] pc = "check" -> 5
      [] pc = "return" -> 6
      [] pc = "tables" -> 7 + (Len(doc) - t_i) * (MaxDocSize + 2)
      [] pc = "rows" -> 7 + (Len(doc) - t_i) * (MaxDocSize + 2) + Len(doc[t_i]) - r_i
      [] pc = "load" -> 8 + MaxDocSize * (MaxDocSize + 2)
      [] pc = "ask_save" -> 9 + MaxDocSize * (MaxDocSize + 2)
      [] pc = "ask_open" -> 10 + MaxDocSize * (MaxDocSize + 2)

C10_Outcomes ==
    /\ pc # "done" => CanStep
    /\ Boxes <= 1
    /\ pc = "done" => (Cancelled <=> Boxes = 0)
    /\ Cancelled =>
           /\ ~Has("read") /\ ~Has("write_xlsx") /\ ~Has("write_log")
           /\ xlsx_file = <<>> /\ log_file = <<>>
    /\ Has("warning:Sem dados") =>
           /\ rows = <<>> /\ xlsx_file = <<>> /\ log_file = <<>>
           /\ ~Has("write_xlsx") /\ ~Has("write_log")
    /\ (Len(xlsx_file) = 1 <=> Has("write_xlsx"))
    /\ (Len(log_file) = 1 <=> Has("write_log"))
    /\ Has("write_log") =>
           Has("write_xlsx") /\ IndexOf("write_xlsx") < IndexOf("write_log")
    /\ Has("info:Concluido") =>
           /\ Has("write_log") /\ IndexOf("write_log") < IndexOf("info:Concluido")
           /\ ~Has("raise")
    /\ Has("raise") =>
           /\ CountOf("raise") = 1
           /\ pc \in {"except", "done"}
           /\ pc = "done" => events[Len(events)] = "error:Erro" /\ CountOf("error:Erro") = 1
    /\ Has("error:Erro") => Has("raise")

\* C10: every step of a run brings it nearer its end and a run that has not
\* ended can take a step; a run that ended was cancelled or showed exactly
\* one of the three message boxes; after a cancelled dialog nothing is
\* read, written or shown; with no rows nothing is written; the log is
\* written after the spreadsheet; "Concluido" is shown after both; a raised
\* exception ends in the one "Erro" box, without "Concluido".
C10_RunOutcomes ==
    /\ []C10_Outcomes
    /\ [][StepsLeft' < StepsLeft /\ StepsLeft' >= 0]_vars

\* C10's case: a run that wrote the spreadsheet, failed to write the log and
\* ended with the "Erro" box.
C10_Witness ==
    /\ pc = "done"
    /\ Has("write_xlsx") /\ ~Has("write_log")
    /\ Has("raise")
    /\ events[Len(events)] = "error:Erro"

====
